---- MODULE Spec2Model ----
(***************************************************************************)
(* Model of split_meetups_by_pubdate_year.py: the loop of main that        *)
(* fetches each meetup's RSS feed, classifies it with                      *)
(* rss_has_pubdate_year, routes the record to with_events or               *)
(* without_events (and to errors), then sorts and writes three files.      *)
(*                                                                         *)
(* Strings are sequences of code points, so that Python's string order     *)
(* and str.lower() are computed and not assumed.  A dict is a function     *)
(* whose DOMAIN is the set of keys present.                                *)
(***************************************************************************)
EXTENDS Integers, Sequences, FiniteSets, TLC

(* ------------------------------ bounds --------------------------------- *)

\* longest input array of meetup records
MaxRecords == 2

\* most <item> elements in a channel
MaxItems == 2

(* --------------------------- program constants ------------------------- *)

TARGET_YEAR == 2026

OUT_WITH == "meetups_with_pubdate_2026.json"

OUT_WITHOUT == "meetups_without_pubdate_2026.json"

OUT_ERRORS == "meetups_rss_errors.json"

(* --------------------------- values and strings ------------------------ *)

\* Python's None, as a sequence no string equals (code points are >= 0)
None == <<-1>>

\* bool(v) for a value that is None or a string
Truthy(v) == v # None /\ v # <<>>

\* a or b
Or(a, b) == IF Truthy(a) THEN a ELSE b

\* d.get(k)
Get(d, k) == IF k \in DOMAIN d THEN d[k] ELSE None

\* str.lower() on the ASCII letters
lower(s) == [i \in DOMAIN s |-> IF s[i] \in 65..90 THEN s[i] + 32 ELSE s[i]]

RECURSIVE StrLess(_, _)
\* a < b for Python strings: lexicographic by code point
StrLess(a, b) ==
    IF b = <<>> THEN FALSE
    ELSE IF a = <<>> THEN TRUE
    ELSE IF Head(a) # Head(b) THEN Head(a) < Head(b)
    ELSE StrLess(Tail(a), Tail(b))

\* f"row-{idx}" for a one-digit idx
RowId(idx) == <<114, 111, 119, 45, 48 + idx>>

(* ------------------------------- inputs -------------------------------- *)

\* meetupID values of the input: absent, "B", "a"
MeetupIds == {None, <<66>>, <<97>>}

\* meetupName values of the input: absent, "A"
MeetupNames == {None, <<65>>}

\* meetupUrlRss values of the input: absent, "" and "u"
MeetupUrls == {None, <<>>, <<117>>}

\* a JSON object with the given fields; a field given as None is absent
MkRecord(id, name, url) ==
    [k \in {kk \in {"meetupID", "meetupName", "meetupUrlRss"} :
              \/ kk = "meetupID" /\ id # None
              \/ kk = "meetupName" /\ name # None
              \/ kk = "meetupUrlRss" /\ url # None} |->
        CASE k = "meetupID" -> id
          [] k = "meetupName" -> name
          [] OTHER -> url]

\* the input objects; meetupName is read only when meetupID is falsy, so it
\* is given only to the records without a meetupID
Records == {MkRecord(c[1], c[2], c[3]) :
              c \in {d \in MeetupIds \X MeetupNames \X MeetupUrls :
                       d[1] # None => d[2] = None}}

(* ------------------------------ the feed ------------------------------- *)

\* The text of a <pubDate>, as the numeric date fields an RFC-822 reader
\* finds in it, <<day, month, year>>: absent element (None), empty text,
\* a truncated date, a day out of range, and dates with a four-digit and
\* a two-digit year.
PubDates == {None, <<>>, <<5>>, <<32, 1, 2026>>,
             <<5, 1, 2026>>, <<5, 1, 26>>, <<5, 1, 2025>>}

\* xml_bytes: malformed XML, a document without <channel>, or a channel
\* whose items are given by the text of their <pubDate>
MalformedXml == [wellformed |-> FALSE, channel |-> FALSE, items |-> <<>>]

NoChannel == [wellformed |-> TRUE, channel |-> FALSE, items |-> <<>>]

Channel(items) == [wellformed |-> TRUE, channel |-> TRUE, items |-> items]

FeedsUpTo(n) == {MalformedXml, NoChannel} \cup
    {Channel(its) : its \in UNION {[1..k -> PubDates] : k \in 0..n}}

\* email.utils.parsedate_to_datetime: raises (year -1 here) unless the
\* text has a day, a month and a year that datetime accepts; a year below
\* 100 is read as 19yy above 68 and as 20yy otherwise.
parsedate_to_datetime(pub) ==
    IF Len(pub) # 3 \/ pub[1] \notin 1..31 \/ pub[2] \notin 1..12
    THEN [raised |-> TRUE, year |-> -1]
    ELSE [raised |-> FALSE,
          year |-> IF pub[3] >= 100 THEN pub[3]
                   ELSE IF pub[3] > 68 THEN pub[3] + 1900 ELSE pub[3] + 2000]

\* mutant: an unparseable date is taken for a date of the target year
ItemStep_BadDateMatches(acc, pub, target_year) ==
    IF ~Truthy(pub) THEN acc
    ELSE LET dt == parsedate_to_datetime(pub) IN
         IF dt.raised
         THEN [acc EXCEPT !.pubdates_seen = @ + 1, !.has_match = TRUE]
         ELSE [acc EXCEPT !.pubdates_seen = @ + 1,
                          !.pubdates_parsed = @ + 1,
                          !.has_match = @ \/ dt.year = target_year]

\* mutant: every date that parses counts as a match
ItemStep_AnyYear(acc, pub, target_year) ==
    IF ~Truthy(pub) THEN acc
    ELSE LET dt == parsedate_to_datetime(pub) IN
         IF dt.raised
         THEN [acc EXCEPT !.pubdates_seen = @ + 1]
         ELSE [acc EXCEPT !.pubdates_seen = @ + 1,
                          !.pubdates_parsed = @ + 1,
                          !.has_match = TRUE]

\* one iteration of the loop over the items: pub is item.findtext("pubDate")
ItemStep(acc, pub, target_year) ==
    IF ~Truthy(pub) THEN acc
    ELSE LET dt == parsedate_to_datetime(pub) IN
         IF dt.raised
         THEN [acc EXCEPT !.pubdates_seen = @ + 1]
         ELSE [acc EXCEPT !.pubdates_seen = @ + 1,
                          !.pubdates_parsed = @ + 1,
                          !.has_match = @ \/ dt.year = target_year]

RECURSIVE ItemLoop(_, _, _)
\* for item in channel.findall("item"): ...
ItemLoop(acc, items, target_year) ==
    IF items = <<>> THEN acc
    ELSE ItemLoop(ItemStep(acc, Head(items), target_year), Tail(items),
                  target_year)

\* rss_has_pubdate_year(xml_bytes, target_year): the tuple it returns, or
\* the ParseError that ET.fromstring raises
rss_has_pubdate_year(xml_bytes, target_year) ==
    LET zero == [raised |-> "", has_match |-> FALSE,
                 pubdates_seen |-> 0, pubdates_parsed |-> 0] IN
    IF ~xml_bytes.wellformed THEN [zero EXCEPT !.raised = "ParseError"]
    ELSE IF ~xml_bytes.channel THEN zero
    ELSE ItemLoop(zero, xml_bytes.items, target_year)

(* ------------------------------- state --------------------------------- *)

VARIABLES
    meetups,         \* json.load(f): the input array
    with_events,     \* list of records, each held by its row in meetups
    without_events,  \* list of records, each held by its row in meetups
    errors,          \* list of error entries
    matched_count, no_match_count, error_count, processed,
    idx,             \* enumerate(meetups, start=1): the row last started
    pc,              \* where main is
    console,         \* the lines printed so far
    files,           \* the content of each output file written so far
    fetched,         \* what http_get_bytes did, for each row it was called on
    xml_bytes, target_year, result   \* a call of rss_has_pubdate_year

vars == <<meetups, with_events, without_events, errors, matched_count,
          no_match_count, error_count, processed, idx, pc, console, files,
          fetched, xml_bytes, target_year, result>>

rssVars == <<xml_bytes, target_year, result>>

total == Len(meetups)

\* meetup_id = m.get("meetupID") or m.get("meetupName") or f"row-{idx}"
MeetupId(m, i) == Or(Or(Get(m, "meetupID"), Get(m, "meetupName")), RowId(i))

\* a printed line: the row it is about, its kind, its message and, for a
\* TALLY line, the figures fmt_tally formats
Line(i, kind, msg) == [row |-> i, line |-> kind, msg |-> msg, tally |-> <<>>]

\* fmt_tally(processed, total, matched, no_match, err)
fmt_tally(i, p, t, matched, no_match, err) ==
    [row |-> i, line |-> "TALLY", msg |-> "",
     tally |-> <<p, t, matched, no_match, err>>]

(* ------------------------------- sorting ------------------------------- *)

\* mutant: the key is not lower-cased
SortKey_CaseSensitive(x) == Or(Get(x, "meetupID"), <<>>)

\* key=lambda x: (x.get("meetupID") or "").lower()
SortKey(x) == lower(Or(Get(x, "meetupID"), <<>>))

\* list.sort(key=...): stable and ascending by the keys computed
\* beforehand, keys[i] being the key of list[i]. Element i goes to the
\* place after the elements with a smaller key and the earlier elements
\* with an equal key.
sort(list, keys) ==
    LET place(i) ==
           1 + Cardinality({j \in DOMAIN list :
                  \/ StrLess(keys[j], keys[i])
                  \/ ~StrLess(keys[i], keys[j]) /\ j < i})
    IN [r \in DOMAIN list |-> list[CHOOSE i \in DOMAIN list : place(i) = r]]

\* json.dump of a bucket of input records
DumpRecords(bucket) == [i \in DOMAIN bucket |-> meetups[bucket[i]]]

\* json.dump of errors
DumpErrors(list) ==
    [i \in DOMAIN list |->
        [k \in DOMAIN list[i] \ {"row"} |-> list[i][k]]]

(* ----------------------------- the fetch -------------------------------- *)

\* the documents a fetch in main returns: malformed XML, no channel, and a
\* channel with one item whose pubDate does not parse, is of the target
\* year, or is of another year; main routes on has_match alone
MainFeeds ==
    {MalformedXml, NoChannel} \cup
    {Channel(<<d>>) : d \in {<<5>>, <<5, 1, 2026>>, <<5, 1, 2025>>}}

\* http_get_bytes(url): it raises, or returns the bytes of some document
Responses ==
    {[raised |-> e, body |-> MalformedXml] :
        e \in {"HTTPError", "URLError", "Exception"}}
    \cup {[raised |-> "", body |-> x] : x \in MainFeeds}

\* msg of each except clause
ExceptMsg(e) ==
    CASE e = "HTTPError" -> "HTTPError 404: Not Found"
      [] e = "URLError" -> "URLError: timed out"
      [] e = "ParseError" -> "XML ParseError: syntax error: line 1, column 0"
      [] OTHER -> "The read operation timed out"

(* ------------------------------- main ---------------------------------- *)

\* the arrays json.load may return
Inputs == UNION {[1..n -> Records] : n \in 0..MaxRecords}

Init ==
    /\ meetups = <<>>
    /\ with_events = <<>>
    /\ without_events = <<>>
    /\ errors = <<>>
    /\ matched_count = 0
    /\ no_match_count = 0
    /\ error_count = 0
    /\ processed = 0
    /\ idx = 0
    /\ pc = "load"
    /\ console = <<>>
    /\ files = <<>>
    /\ fetched = <<>>
    /\ xml_bytes = NoChannel
    /\ target_year = TARGET_YEAR
    /\ result = [raised |-> "pending", has_match |-> FALSE,
                 pubdates_seen |-> 0, pubdates_parsed |-> 0]

\* mutant: the skipped record's entry carries the meetupUrlRss it read
MissingUrl_WithUrlField(i, m, meetup_id) ==
    /\ processed' = processed + 1
    /\ error_count' = error_count + 1
    /\ errors' = Append(errors, [row |-> i, meetupID |-> meetup_id,
                                 meetupUrlRss |-> Get(m, "meetupUrlRss"),
                                 error |-> "missing meetupUrlRss"])
    /\ without_events' = Append(without_events, i)
    /\ console' = console \o
          <<Line(i, "ERROR", "missing meetupUrlRss"),
            fmt_tally(i, processed', total, matched_count, no_match_count,
                      error_count')>>
    /\ pc' = "loop"
    /\ UNCHANGED <<with_events, matched_count, no_match_count>>

\* mutant: the skip falls through to the pause instead of continue
MissingUrl_Sleeps(i, m, meetup_id) ==
    /\ processed' = processed + 1
    /\ error_count' = error_count + 1
    /\ errors' = Append(errors, [row |-> i, meetupID |-> meetup_id,
                                 error |-> "missing meetupUrlRss"])
    /\ without_events' = Append(without_events, i)
    /\ console' = console \o
          <<Line(i, "ERROR", "missing meetupUrlRss"),
            fmt_tally(i, processed', total, matched_count, no_match_count,
                      error_count'),
            Line(i, "sleeping", "")>>
    /\ pc' = "loop"
    /\ UNCHANGED <<with_events, matched_count, no_match_count>>

\* if not rss_url: ... continue
MissingUrl(i, m, meetup_id) ==
    /\ processed' = processed + 1
    /\ error_count' = error_count + 1
    /\ errors' = Append(errors, [row |-> i, meetupID |-> meetup_id,
                                 error |-> "missing meetupUrlRss"])
    /\ without_events' = Append(without_events, i)
    /\ console' = console \o
          <<Line(i, "ERROR", "missing meetupUrlRss"),
            fmt_tally(i, processed', total, matched_count, no_match_count,
                      error_count')>>
    /\ pc' = "loop"
    /\ UNCHANGED <<with_events, matched_count, no_match_count>>

\* mutant: a matched record is also kept in without_events
Matched_AlsoWithout(i) ==
    /\ processed' = processed + 1
    /\ matched_count' = matched_count + 1
    /\ with_events' = Append(with_events, i)
    /\ without_events' = Append(without_events, i)
    /\ console' = console \o <<Line(i, "fetching", ""), Line(i, "MATCH", "")>>
    /\ pc' = "tally"
    /\ UNCHANGED <<errors, no_match_count, error_count>>

\* processed += 1; if has_match: ...
Matched(i) ==
    /\ processed' = processed + 1
    /\ matched_count' = matched_count + 1
    /\ with_events' = Append(with_events, i)
    /\ console' = console \o <<Line(i, "fetching", ""), Line(i, "MATCH", "")>>
    /\ pc' = "tally"
    /\ UNCHANGED <<without_events, errors, no_match_count, error_count>>

\* mutant: no_match_count is not counted
NoMatch_NotCounted(i) ==
    /\ processed' = processed + 1
    /\ without_events' = Append(without_events, i)
    /\ console' = console \o
          <<Line(i, "fetching", ""), Line(i, "NO-MATCH", "")>>
    /\ pc' = "tally"
    /\ UNCHANGED <<with_events, errors, matched_count, no_match_count,
                   error_count>>

\* processed += 1; else: ...
NoMatch(i) ==
    /\ processed' = processed + 1
    /\ no_match_count' = no_match_count + 1
    /\ without_events' = Append(without_events, i)
    /\ console' = console \o
          <<Line(i, "fetching", ""), Line(i, "NO-MATCH", "")>>
    /\ pc' = "tally"
    /\ UNCHANGED <<with_events, errors, matched_count, error_count>>

\* mutant: the failure is logged and counted but not recorded in errors
Except_NoEntry(i, meetup_id, rss_url, msg) ==
    /\ processed' = processed + 1
    /\ error_count' = error_count + 1
    /\ without_events' = Append(without_events, i)
    /\ console' = console \o <<Line(i, "fetching", ""), Line(i, "ERROR", msg)>>
    /\ pc' = "tally"
    /\ UNCHANGED <<errors, with_events, matched_count, no_match_count>>

\* mutant: the failure is recorded and then ends the run
Except_Aborts(i, meetup_id, rss_url, msg) ==
    /\ processed' = processed + 1
    /\ error_count' = error_count + 1
    /\ errors' = Append(errors, [row |-> i, meetupID |-> meetup_id,
                                 meetupUrlRss |-> rss_url, error |-> msg])
    /\ without_events' = Append(without_events, i)
    /\ console' = console \o <<Line(i, "fetching", ""), Line(i, "ERROR", msg)>>
    /\ pc' = "aborted"
    /\ UNCHANGED <<with_events, matched_count, no_match_count>>

\* the four except clauses: they differ in msg only
Except(i, meetup_id, rss_url, msg) ==
    /\ processed' = processed + 1
    /\ error_count' = error_count + 1
    /\ errors' = Append(errors, [row |-> i, meetupID |-> meetup_id,
                                 meetupUrlRss |-> rss_url, error |-> msg])
    /\ without_events' = Append(without_events, i)
    /\ console' = console \o <<Line(i, "fetching", ""), Line(i, "ERROR", msg)>>
    /\ pc' = "tally"
    /\ UNCHANGED <<with_events, matched_count, no_match_count>>

\* open(master_path) and json.load succeed
Load ==
    /\ pc = "load"
    /\ meetups' \in Inputs
    /\ pc' = "loop"
    /\ UNCHANGED <<with_events, without_events, errors, matched_count,
                   no_match_count, error_count, processed, idx, console,
                   files, fetched, rssVars>>

\* the input file is unreadable or is not JSON: the exception leaves main
LoadFails ==
    /\ pc = "load"
    /\ pc' = "fatal"
    /\ UNCHANGED <<meetups, with_events, without_events, errors,
                   matched_count, no_match_count, error_count, processed,
                   idx, console, files, fetched, rssVars>>

\* an iteration on a record without a feed URL, up to its continue
SkipRecord ==
    /\ pc = "loop"
    /\ idx < total
    /\ LET i == idx + 1
           m == meetups[i]
       IN /\ ~Truthy(Get(m, "meetupUrlRss"))
          /\ idx' = i
          /\ MissingUrl(i, m, MeetupId(m, i))
    /\ UNCHANGED <<meetups, files, fetched, rssVars>>

\* an iteration on a record with a feed URL, up to the end of its try
FetchRecord ==
    /\ pc = "loop"
    /\ idx < total
    /\ LET i == idx + 1
           m == meetups[i]
           meetup_id == MeetupId(m, i)
           rss_url == Get(m, "meetupUrlRss")
       IN /\ Truthy(rss_url)
          /\ idx' = i
          /\ \E r \in Responses :
                /\ IF r.raised # ""
                   THEN Except(i, meetup_id, rss_url, ExceptMsg(r.raised))
                   ELSE LET res == rss_has_pubdate_year(r.body, TARGET_YEAR)
                        IN IF res.raised # ""
                           THEN Except(i, meetup_id, rss_url,
                                       ExceptMsg(res.raised))
                           ELSE IF res.has_match THEN Matched(i)
                                ELSE NoMatch(i)
                /\ fetched' = (i :> r) @@ fetched
    /\ UNCHANGED <<meetups, files, rssVars>>

\* print(fmt_tally(...)) after the try
Tally ==
    /\ pc = "tally"
    /\ console' = Append(console,
          fmt_tally(idx, processed, total, matched_count, no_match_count,
                    error_count))
    /\ pc' = "sleep"
    /\ UNCHANGED <<meetups, with_events, without_events, errors,
                   matched_count, no_match_count, error_count, processed,
                   idx, files, fetched, rssVars>>

\* sleep_random(meetup_id): the length of the pause is not kept
Sleep ==
    /\ pc = "sleep"
    /\ console' = Append(console, Line(idx, "sleeping", ""))
    /\ pc' = "loop"
    /\ UNCHANGED <<meetups, with_events, without_events, errors,
                   matched_count, no_match_count, error_count, processed,
                   idx, files, fetched, rssVars>>

\* the three sorts after the loop
Sort ==
    /\ pc = "loop"
    /\ idx = total
    /\ with_events' = sort(with_events,
          [i \in DOMAIN with_events |-> SortKey(meetups[with_events[i]])])
    /\ without_events' = sort(without_events,
          [i \in DOMAIN without_events |->
              SortKey(meetups[without_events[i]])])
    /\ errors' = sort(errors, [i \in DOMAIN errors |-> SortKey(errors[i])])
    /\ pc' = "write_with"
    /\ UNCHANGED <<meetups, matched_count, no_match_count, error_count,
                   processed, idx, console, files, fetched, rssVars>>

\* mutant: the matched file is rewritten after every record
WriteWith_InLoop ==
    /\ pc = "loop"
    /\ OUT_WITH \notin DOMAIN files
    /\ files' = (OUT_WITH :> DumpRecords(with_events)) @@ files
    /\ pc' = IF idx = total THEN "write_without" ELSE "loop"
    /\ UNCHANGED <<meetups, with_events, without_events, errors,
                   matched_count, no_match_count, error_count, processed,
                   idx, console, fetched, rssVars>>

WriteWith ==
    /\ pc = "write_with"
    /\ files' = (OUT_WITH :> DumpRecords(with_events)) @@ files
    /\ pc' = "write_without"
    /\ UNCHANGED <<meetups, with_events, without_events, errors,
                   matched_count, no_match_count, error_count, processed,
                   idx, console, fetched, rssVars>>

WriteWithout ==
    /\ pc = "write_without"
    /\ files' = (OUT_WITHOUT :> DumpRecords(without_events)) @@ files
    /\ pc' = "write_errors"
    /\ UNCHANGED <<meetups, with_events, without_events, errors,
                   matched_count, no_match_count, error_count, processed,
                   idx, console, fetched, rssVars>>

\* the last write and the FINAL block
WriteErrors ==
    /\ pc = "write_errors"
    /\ files' = (OUT_ERRORS :> DumpErrors(errors)) @@ files
    /\ console' = Append(console,
          fmt_tally(0, processed, total, matched_count, no_match_count,
                    error_count))
    /\ pc' = "done"
    /\ UNCHANGED <<meetups, with_events, without_events, errors,
                   matched_count, no_match_count, error_count, processed,
                   idx, fetched, rssVars>>

Next ==
    \/ Load
    \/ LoadFails
    \/ SkipRecord
    \/ FetchRecord
    \/ Tally
    \/ Sleep
    \/ Sort
    \/ WriteWith
    \/ WriteWithout
    \/ WriteErrors

Spec == Init /\ [][Next]_vars

(* ------------------- main from the loaded input on ------------------- *)

\* the loaded arrays the run is followed to its end from: records that
\* differ in their feed URL, which alone decides how an iteration goes
LiveInputs ==
    UNION {[1..n -> {MkRecord(<<97>>, None, url) : url \in MeetupUrls}] :
             n \in 0..MaxRecords}

InitLive ==
    /\ meetups \in LiveInputs
    /\ with_events = <<>>
    /\ without_events = <<>>
    /\ errors = <<>>
    /\ matched_count = 0
    /\ no_match_count = 0
    /\ error_count = 0
    /\ processed = 0
    /\ idx = 0
    /\ pc = "loop"
    /\ console = <<>>
    /\ files = <<>>
    /\ fetched = <<>>
    /\ xml_bytes = NoChannel
    /\ target_year = TARGET_YEAR
    /\ result = [raised |-> "pending", has_match |-> FALSE,
                 pubdates_seen |-> 0, pubdates_parsed |-> 0]

NextLive ==
    \/ SkipRecord
    \/ FetchRecord
    \/ Tally
    \/ Sleep
    \/ Sort
    \/ WriteWith
    \/ WriteWithout
    \/ WriteErrors

\* main is one thread and every call in it returns or raises (the fetch has
\* a timeout, the pause is at most SLEEP_MAX_SECS): a step that can be taken
\* is taken
LiveSpec == InitLive /\ [][NextLive]_vars /\ WF_vars(NextLive)

(* ------------------- rss_has_pubdate_year on its own ------------------- *)

TargetYears == {2025, 2026}

InitRss ==
    /\ meetups = <<>>
    /\ with_events = <<>>
    /\ without_events = <<>>
    /\ errors = <<>>
    /\ matched_count = 0
    /\ no_match_count = 0
    /\ error_count = 0
    /\ processed = 0
    /\ idx = 0
    /\ pc = "rss_call"
    /\ console = <<>>
    /\ files = <<>>
    /\ fetched = <<>>
    /\ xml_bytes \in FeedsUpTo(MaxItems)
    /\ target_year \in TargetYears
    /\ result = [raised |-> "pending", has_match |-> FALSE,
                 pubdates_seen |-> 0, pubdates_parsed |-> 0]

\* a call of rss_has_pubdate_year, to its return or its raise
Classify ==
    /\ pc = "rss_call"
    /\ result' = rss_has_pubdate_year(xml_bytes, target_year)
    /\ pc' = "rss_return"
    /\ UNCHANGED <<meetups, with_events, without_events, errors,
                   matched_count, no_match_count, error_count, processed,
                   idx, console, files, fetched, xml_bytes,
                   target_year>>

NextRss == Classify

SpecRss == InitRss /\ [][NextRss]_vars

(* --------------------------- the properties ---------------------------- *)

\* how often x occurs in seq
CountIn(seq, x) == Cardinality({k \in DOMAIN seq : seq[k] = x})

\* a and b hold the same elements, each as often
SameElements(a, b) ==
    /\ Len(a) = Len(b)
    /\ \A k \in DOMAIN a : CountIn(a, a[k]) = CountIn(b, a[k])

InMain == pc \in {"load", "fatal", "loop", "tally", "sleep", "write_with",
                  "write_without", "write_errors", "done"}

LoopFinished ==
    pc \in {"loop", "write_with", "write_without", "write_errors", "done"}
    /\ idx = total

\* row i has no usable feed URL
NoUrl(i) == ~Truthy(Get(meetups[i], "meetupUrlRss"))

\* the exception row i's fetch or parse ended with, "" when it ended well
Failure(i) ==
    IF i \notin DOMAIN fetched THEN ""
    ELSE IF fetched[i].raised # "" THEN fetched[i].raised
    ELSE IF ~fetched[i].body.wellformed THEN "ParseError"
    ELSE ""

\* the entries of errors that row i's iteration appended
EntriesOf(i) == {k \in DOMAIN errors : errors[k].row = i}

\* C1: every record whose iteration has run is in exactly one of with_events
\* and without_events, exactly once, and no other record is in either; so
\* when the loop has finished |with_events| + |without_events| = |input|.
C1_Partition ==
    InMain =>
      /\ \A i \in 1..total :
            CountIn(with_events, i) + CountIn(without_events, i) =
               IF i <= idx THEN 1 ELSE 0
      /\ LoopFinished => Len(with_events) + Len(without_events) = total

C1_Witness ==
    /\ pc = "done"
    /\ total >= 2
    /\ Len(with_events) >= 1
    /\ \E i \in 1..total : Failure(i) # ""

\* C2: a record whose fetch or parse failed (HTTPError, URLError, XML
\* ParseError, any other exception) is in without_events, not in
\* with_events, and has exactly one entry in errors, with its identifier,
\* its feed URL and the message of the failure; a record classified MATCH
\* or NO-MATCH has no entry in errors.
C2_FailedRecords ==
    InMain =>
      \A i \in DOMAIN fetched :
         IF Failure(i) # ""
         THEN /\ CountIn(without_events, i) = 1
              /\ CountIn(with_events, i) = 0
              /\ Cardinality(EntriesOf(i)) = 1
              /\ \A k \in EntriesOf(i) :
                    /\ errors[k].meetupID = MeetupId(meetups[i], i)
                    /\ "meetupUrlRss" \in DOMAIN errors[k]
                    /\ errors[k].meetupUrlRss = meetups[i]["meetupUrlRss"]
                    /\ errors[k].error = ExceptMsg(Failure(i))
         ELSE EntriesOf(i) = {}

C2_Witness ==
    /\ pc = "done"
    /\ {Failure(i) : i \in DOMAIN fetched} = {"ParseError", "Exception"}

\* C3: a record whose meetupUrlRss is absent or empty is in without_events
\* and has an entry in errors with the message "missing meetupUrlRss" and
\* without a meetupUrlRss field; http_get_bytes is not called for it.
C3_MissingUrl ==
    InMain =>
      \A i \in 1..idx :
         NoUrl(i) =>
            /\ CountIn(without_events, i) = 1
            /\ CountIn(with_events, i) = 0
            /\ Cardinality(EntriesOf(i)) = 1
            /\ \A k \in EntriesOf(i) :
                  /\ errors[k].error = "missing meetupUrlRss"
                  /\ errors[k].meetupID = MeetupId(meetups[i], i)
                  /\ "meetupUrlRss" \notin DOMAIN errors[k]
            /\ i \notin DOMAIN fetched

C3_Witness ==
    /\ pc = "done"
    /\ total = 2
    /\ "meetupUrlRss" \notin DOMAIN meetups[1]
    /\ "meetupUrlRss" \in DOMAIN meetups[2]
    /\ meetups[2]["meetupUrlRss"] = <<>>

\* x carries a non-empty meetupID
HasId(x) == "meetupID" \in DOMAIN x /\ x["meetupID"] # <<>>

\* the identifier of x as the outputs are to be ordered by it: "" when x has
\* none, and upper and lower case of a letter taken as the same
FoldedId(x) ==
    LET id == IF HasId(x) THEN x["meetupID"] ELSE <<>>
    IN [k \in DOMAIN id |-> IF id[k] \in 65..90 THEN id[k] + 32 ELSE id[k]]

\* out is ascending by folded identifier, the records without one first
Ascending(out) ==
    \A i, j \in DOMAIN out :
       i < j => /\ ~StrLess(FoldedId(out[j]), FoldedId(out[i]))
                /\ ~(HasId(out[i]) /\ ~HasId(out[j]))

\* C4: every written output is ascending by identifier compared
\* case-insensitively, a record without identifier counting as "" and so
\* coming before every record with one; the sort step only reorders each
\* bucket, and each write dumps the bucket as sorted.
C4_SortedOutputs ==
    /\ [](\A f \in DOMAIN files : Ascending(files[f]))
    /\ [][(pc = "loop" /\ pc' = "write_with") =>
             /\ SameElements(with_events, with_events')
             /\ SameElements(without_events, without_events')
             /\ SameElements(errors, errors')]_vars
    /\ []((OUT_WITH \in DOMAIN files =>
              files[OUT_WITH] = DumpRecords(with_events))
          /\ (OUT_WITHOUT \in DOMAIN files =>
                 files[OUT_WITHOUT] = DumpRecords(without_events))
          /\ (OUT_ERRORS \in DOMAIN files =>
                 files[OUT_ERRORS] = DumpErrors(errors)))

\* "B" was put in the bucket before "a", and is written after it
C4_Witness ==
    /\ pc = "done"
    /\ without_events = <<2, 1>>
    /\ Get(meetups[1], "meetupID") = <<66>>
    /\ Get(meetups[2], "meetupID") = <<97>>
    /\ Len(files[OUT_ERRORS]) = 2

\* C5: no output file is written before every record has been processed:
\* while the loop runs no file exists, and once one exists the loop has
\* completed with processed = total.
C5_WritesAfterLoop ==
    InMain =>
      /\ ~LoopFinished => DOMAIN files = {}
      /\ DOMAIN files # {} =>
            /\ processed = total
            /\ pc \in {"write_without", "write_errors", "done"}

C5_Witness ==
    /\ DOMAIN files = {OUT_WITH}
    /\ processed = total
    /\ total >= 2

\* the items of the call's channel whose pubDate parses to the year y
ItemsOfYear(y) ==
    {k \in DOMAIN xml_bytes.items :
        /\ Truthy(xml_bytes.items[k])
        /\ ~parsedate_to_datetime(xml_bytes.items[k]).raised
        /\ parsedate_to_datetime(xml_bytes.items[k]).year = y}

\* the items of the call's channel whose pubDate has text that does not parse
MalformedItems ==
    {k \in DOMAIN xml_bytes.items :
        /\ Truthy(xml_bytes.items[k])
        /\ parsedate_to_datetime(xml_bytes.items[k]).raised}

\* the items of the call's channel whose pubDate has text that parses
ParsedItems ==
    {k \in DOMAIN xml_bytes.items :
        /\ Truthy(xml_bytes.items[k])
        /\ ~parsedate_to_datetime(xml_bytes.items[k]).raised}

Returned == pc = "rss_return" /\ xml_bytes.wellformed /\ xml_bytes.channel

\* C6: for a well-formed feed with a channel, has_match is true exactly
\* when some item has a pubDate that parses to the target year; when every
\* item has a pubDate and all of them parse to other years, has_match is
\* false and pubdates_parsed is the number of items.
C6_MatchIffTargetYear ==
    Returned =>
      /\ result.raised = ""
      /\ result.has_match <=> ItemsOfYear(target_year) # {}
      /\ (/\ ParsedItems = DOMAIN xml_bytes.items
          /\ ItemsOfYear(target_year) = {})
         => /\ ~result.has_match
            /\ result.pubdates_parsed = Len(xml_bytes.items)

\* dates of another year, then a two-digit year that is the target year
C6_Witness ==
    /\ Returned
    /\ target_year = 2026
    /\ xml_bytes.items = <<<<5, 1, 2025>>, <<5, 1, 26>>>>
    /\ result.has_match

\* C7: a pubDate that is present but malformed raises nothing out of the
\* call; it is counted in pubdates_seen and not in pubdates_parsed, so
\* seen > parsed when there is one and parsed <= seen always; it causes no
\* match: has_match is false unless another item's date parses to the
\* target year.
C7_MalformedDates ==
    Returned =>
      /\ result.raised = ""
      /\ result.pubdates_parsed <= result.pubdates_seen
      /\ result.pubdates_seen - result.pubdates_parsed =
            Cardinality(MalformedItems)
      /\ result.pubdates_parsed = Cardinality(ParsedItems)
      /\ MalformedItems # {} =>
            /\ result.pubdates_seen > result.pubdates_parsed
            /\ result.has_match =>
                  \E k \in ParsedItems : k \notin MalformedItems
                     /\ parsedate_to_datetime(xml_bytes.items[k]).year
                           = target_year

\* a day out of range in a date whose year field is the target year
C7_Witness ==
    /\ Returned
    /\ target_year = 2026
    /\ xml_bytes.items = <<<<32, 1, 2026>>, <<5, 1, 2025>>>>
    /\ ~result.has_match
    /\ result.pubdates_seen = 2
    /\ result.pubdates_parsed = 1

\* the positions in console of the lines of the given kind about row i
LinesOf(i, kind) ==
    {k \in DOMAIN console : console[k].row = i /\ console[k].line = kind}

\* row i's iteration printed its tally once, and every line about a later
\* row comes after it
TallyThenNext(i) ==
    /\ Cardinality(LinesOf(i, "TALLY")) = 1
    /\ \A k \in LinesOf(i, "TALLY") :
          \A n \in DOMAIN console : console[n].row > i => n > k

\* row i's iteration paused right after its tally
PausedAfterTally(i) ==
    /\ Cardinality(LinesOf(i, "sleeping")) = 1
    /\ \A k \in LinesOf(i, "TALLY") : k + 1 \in LinesOf(i, "sleeping")

\* C8 as stated: after every processed record, a record skipped for a
\* missing feed URL included, the tally is printed and then sleep_random
\* runs before the next record is started.
C8_AlwaysSleeps ==
    (InMain /\ pc = "loop") =>
       \A i \in 1..idx : TallyThenNext(i) /\ PausedAfterTally(i)

\* C8 amended: after every processed record the tally is printed before the
\* next record is started; sleep_random runs after the tally exactly for
\* the records whose feed was fetched, and not for a record skipped for a
\* missing feed URL.
C8_SleepsAfterFetch ==
    (InMain /\ pc = "loop") =>
       \A i \in 1..idx :
          /\ TallyThenNext(i)
          /\ IF i \in DOMAIN fetched THEN PausedAfterTally(i)
             ELSE NoUrl(i) /\ LinesOf(i, "sleeping") = {}

C8_Witness ==
    /\ pc = "loop"
    /\ idx = 2
    /\ NoUrl(1)
    /\ 2 \in DOMAIN fetched
    /\ LinesOf(1, "sleeping") = {}
    /\ LinesOf(2, "sleeping") # {}

\* the rows of the outcome lines printed so far, in the order printed
OutcomeRows ==
    LET ks == {k \in DOMAIN console :
                  console[k].line \in {"ERROR", "MATCH", "NO-MATCH"}}
    IN [n \in 1..Cardinality(ks) |->
          console[CHOOSE k \in ks :
                     Cardinality({j \in ks : j <= k}) = n].row]

AllWritten ==
    /\ pc = "done"
    /\ processed = total
    /\ DOMAIN files = {OUT_WITH, OUT_WITHOUT, OUT_ERRORS}

\* C9: once the input is loaded no outcome of a record ends the run: the
\* records get their outcome one at a time in input order, and the run
\* reaches the end of the write phase with processed = total and the three
\* files written.
C9_RunCompletes ==
    /\ [](InMain /\ OutcomeRows = [n \in 1..idx |-> n])
    /\ <>AllWritten

\* a run that went on after a failed fetch of its first record
C9_Witness ==
    /\ AllWritten
    /\ total >= 2
    /\ Failure(1) # ""

\* C10: after each iteration the counters agree with the accumulators:
\* processed is the number of records handled and the sum of the three
\* counts, |with_events| = matched_count, |errors| = error_count and
\* |without_events| = no_match_count + error_count; each tally printed
\* shows such figures.
C10_Counters ==
    InMain =>
      /\ processed = idx
      /\ processed = matched_count + no_match_count + error_count
      /\ Len(with_events) = matched_count
      /\ Len(errors) = error_count
      /\ Len(without_events) = no_match_count + error_count
      /\ \A k \in DOMAIN console :
            console[k].line = "TALLY" =>
               LET t == console[k].tally IN
               /\ t[2] = total
               /\ t[1] = t[3] + t[4] + t[5]
               /\ console[k].row > 0 => t[1] = console[k].row
               /\ k = Len(console) =>
                     t = <<processed, total, matched_count, no_match_count,
                           error_count>>

\* the unmatched bucket holds more records than NO-MATCH counts
C10_Witness ==
    /\ pc = "loop"
    /\ idx = total
    /\ no_match_count = 1
    /\ error_count = 1
    /\ Len(without_events) = 2

====
